---- MODULE Spec2Model ----
(***************************************************************************)
(* A model of the length-prefixed TCP client of src/src/client.rs:         *)
(* TcpClient::send (the outbound writer), TcpClient::receive (the inbound  *)
(* pump thread), TcpClient::set_on_message_received (the callback slot),   *)
(* together with the peer and the socket they talk to.                     *)
(*                                                                         *)
(* Conventions.  A byte is a number in 0..255, a byte string a sequence of *)
(* bytes.  Option<T> is a sequence of length 0 (None) or 1 (Some(v));      *)
(* Result<T, E> likewise is <<>> for Err and <<v>> for Ok(v).  Handlers    *)
(* are closures supplied by the caller; they are modelled by an identity   *)
(* (0 is the no-op installed by TcpClientData::new, k > 0 the closure      *)
(* passed to the k-th call of set_on_message_received) and are assumed to  *)
(* return normally, so the mutex around the slot is never poisoned.        *)
(***************************************************************************)
EXTENDS Integers, Sequences, FiniteSets, TLC

\* ------------------------------------------------------------------ bounds
\* The peer sends at most MaxFrames complete frames (plus one unfinished one).
MaxFrames == 2
\* receive() is called at most MaxPumps times.
MaxPumps == 2
\* set_on_message_received is called at most MaxSets times.
MaxSets == 2
\* The largest Vec<u8> the allocator grants: a larger resize fails.
MemLimit == 32
\* send() is called at most MaxSends times.
MaxSends == 2
\* A pump is to stop within PollBound iterations of a shutdown.
PollBound == 2
\* Integers decoded from 8 bytes saturate at U64Cap in a Message's fields.
U64Cap == 65536

\* ------------------------------------------------------- program constants
\* let header_size = std::mem::size_of::<u64>();
header_size == 8

\* ------------------------------------------------------------ byte helpers
Min(a, b) == IF a < b THEN a ELSE b

Zeros(n) == [i \in 1..n |-> 0]

Pow256(k) == CASE k = 0 -> 1 [] k = 1 -> 256 [] k = 2 -> 65536 [] OTHER -> 16777216

\* (n as uN).to_le_bytes() for a width of w bytes; n < 2^31 in this model.
to_le_bytes(n, w) == [i \in 1..w |-> IF i <= 4 THEN (n \div Pow256(i - 1)) % 256 ELSE 0]

\* Whether the little-endian integer held by arr is below 65536.
LeFits(arr) == \A i \in 1..Len(arr) : i > 2 => arr[i] = 0

\* uN::from_le_bytes(arr), saturated at U64Cap.
from_le_bytes(arr) == IF LeFits(arr) THEN arr[1] + 256 * arr[2] ELSE U64Cap

\* header_size + amount_to_read leaves the range of usize: the value is
\* above 2^64 - 9.  A debug build panics on the addition; a release build
\* wraps to a length below 8, and buffer[read_bytes..] then panics.
AddOverflows(arr) == (\A i \in 2..8 : arr[i] = 255) /\ arr[1] >= 256 - header_size

\* header_size + amount_to_read is above isize::MAX: Vec::resize panics with
\* "capacity overflow".
CapacityOverflows(arr) ==
    \/ arr[8] >= 128
    \/ (arr[8] = 127 /\ (\A i \in 2..7 : arr[i] = 255) /\ arr[1] >= 256 - header_size)

\* buffer.resize(n, 0)
Resize(buf, n) == IF n <= Len(buf) THEN SubSeq(buf, 1, n) ELSE buf \o Zeros(n - Len(buf))

\* &s[from..] with a 0-based start, as in the source.
SliceFrom(s, from) == SubSeq(s, from + 1, Len(s))

\* ---------------------------------------------------------------- messages
None == <<>>
Some(v) == <<v>>

MessageTypeNames ==
    <<"YouAreKicked", "YouAreTimedout", "ConnectionDropped",
      "ClientSentMessage", "ClientDisconnected", "MessageDeserializeError">>

\* The variants that carry a usize.
HasIndex(name) == name \in {"ClientSentMessage", "ClientDisconnected"}

\* serde's variant index of a MessageType (its position in the enum).
VariantIndex(name) == CHOOSE i \in 1..Len(MessageTypeNames) : MessageTypeNames[i] = name

Message(mt, body) == [message_type |-> mt, body |-> body]

ConnectionDroppedMessage == Message(<<"ConnectionDropped">>, None)

DeserializeErrorMessage == Message(<<"MessageDeserializeError">>, None)

\* bincode::serialize(&message): the variant index as a u32, the usize of the
\* variant as a u64, the Option tag as a u8, a Vec as its u64 length and bytes;
\* all little-endian, fixed width.
Serialize(m) ==
    LET name == m.message_type[1]
        mt   == to_le_bytes(VariantIndex(name) - 1, 4)
                  \o (IF HasIndex(name) THEN to_le_bytes(m.message_type[2], 8) ELSE <<>>)
        body == IF m.body = None
                THEN <<0>>
                ELSE <<1>> \o to_le_bytes(Len(m.body[1]), 8) \o m.body[1]
    IN  mt \o body

\* bincode::deserialize::<Message>(bytes): Ok(message) or Err.  Trailing
\* bytes are allowed; a short input, an unknown variant index, an Option tag
\* other than 0 and 1 and a Vec length beyond the input are errors.
Deserialize(bytes) ==
    IF Len(bytes) < 4 THEN <<>>
    ELSE
    LET tag == SubSeq(bytes, 1, 4)
    IN  IF ~(tag[2] = 0 /\ tag[3] = 0 /\ tag[4] = 0 /\ tag[1] < Len(MessageTypeNames))
        THEN <<>>
        ELSE
        LET name == MessageTypeNames[tag[1] + 1]
            at   == IF HasIndex(name) THEN 4 + 8 ELSE 4
        IN  IF Len(bytes) < at + 1 THEN <<>>
            ELSE
            LET mt  == IF HasIndex(name)
                       THEN <<name, from_le_bytes(SubSeq(bytes, 5, 12))>>
                       ELSE <<name>>
                opt == bytes[at + 1]
            IN  IF opt = 0 THEN <<Message(mt, None)>>
                ELSE IF opt # 1 THEN <<>>
                ELSE IF Len(bytes) < at + 1 + 8 THEN <<>>
                ELSE
                LET lenArr == SubSeq(bytes, at + 2, at + 9)
                    rest   == SliceFrom(bytes, at + 9)
                IN  IF ~LeFits(lenArr) \/ from_le_bytes(lenArr) > Len(rest)
                    THEN <<>>
                    ELSE <<Message(mt, Some(SubSeq(rest, 1, from_le_bytes(lenArr))))>>

\* One frame on the wire: the 8-byte length header, then the payload.
Frame(payload) == to_le_bytes(Len(payload), 8) \o payload

RECURSIVE Flatten(_)
Flatten(frames) ==
    IF frames = <<>> THEN <<>> ELSE Frame(Head(frames)) \o Flatten(Tail(frames))

\* ------------------------------------------------------------------ inputs
KickedMessage == Message(<<"YouAreKicked">>, None)

SentMessage == Message(<<"ClientSentMessage", 3>>, Some(<<104, 105>>))

\* Payloads the peer puts in a frame: two serialized messages, one payload
\* that is no serialized Message, and the empty payload.
MalformedPayload == <<9>>

Payloads == {Serialize(KickedMessage), Serialize(SentMessage), MalformedPayload, <<>>}

\* What the peer may send after its last complete frame: nothing, a part of a
\* header, a header with a part of its payload, and headers declaring a
\* payload of 2^64 - 1, of 2^63 and of 65536 bytes.
Tails ==
    { <<>>,
      <<5, 0, 0>>,
      <<5, 0, 0, 0, 0, 0, 0, 0, 0, 0>>,
      <<255, 255, 255, 255, 255, 255, 255, 255>>,
      <<0, 0, 0, 0, 0, 0, 0, 128>>,
      <<0, 0, 1, 0, 0, 0, 0, 0>> }

FrameSeqs == UNION {[1..n -> Payloads] : n \in 0..MaxFrames}

\* ------------------------------------------------------------------- state
VARIABLES
    peerFrames,          \* payloads of the complete frames the peer sends
    peerTail,            \* what the peer sends after them
    inbound,             \* bytes sent by the peer and not yet read
    peerClosed,          \* the peer's FIN has reached the socket
    proc,                \* "running", "exited" (exit(0)), "aborted"
    ownerDropped,        \* the owner has dropped its TcpClient
    itersSinceDrop,      \* loop iterations a pump began after that (capped)
    spawned,             \* number of pump threads spawned by receive()
    pc,                  \* where each pump thread is
    buffer,              \* each pump's buffer: Vec<u8>
    read_bytes,          \* each pump's read_bytes
    amount_to_read,      \* each pump's amount_to_read
    readers,             \* pumps that have called socket.read
    lastRead,            \* outcome of socket.read in each pump's iteration
    on_message_received, \* the handler in the callback slot
    mutex,               \* 0, or the pump holding the slot's lock
    dispatched,          \* log of handler invocations
    setPc,               \* owner: "idle", or "locking" inside set_on_message_received
    sets,                \* calls of set_on_message_received so far
    sendPc,              \* each caller of send: "idle", "header", "body"
    data,                \* each caller's serialized message
    header_written,      \* each caller's header_written
    body_written,        \* each caller's body_written
    lastWrite,           \* outcome of each caller's last socket.write
    outbound,            \* bytes the socket accepted, in order
    sendLog              \* the calls of send, in call order

recvVars ==
    <<peerFrames, peerTail, inbound, peerClosed, proc, ownerDropped, itersSinceDrop,
      spawned, pc, buffer, read_bytes, amount_to_read, readers, lastRead,
      on_message_received, mutex, dispatched, setPc, sets>>

sendVars == <<sendPc, data, header_written, body_written, lastWrite, outbound, sendLog>>

vars == <<recvVars, sendVars>>

Pumps == 1..MaxPumps

\* The threads that may call send.
Callers == {1, 2}

\* The state after TcpClient::connect, for a peer that sends one of the
\* given frame sequences and then one of the given tails.
InitWith(frameSeqs, tails) ==
    /\ peerFrames \in frameSeqs
    /\ peerTail \in tails
    /\ inbound = Flatten(peerFrames) \o peerTail
    /\ peerClosed = FALSE
    /\ proc = "running"
    /\ ownerDropped = FALSE
    /\ itersSinceDrop = 0
    /\ spawned = 0
    /\ pc = [p \in Pumps |-> "unspawned"]
    /\ buffer = [p \in Pumps |-> <<>>]
    /\ read_bytes = [p \in Pumps |-> 0]
    /\ amount_to_read = [p \in Pumps |-> 0]
    /\ readers = {}
    /\ lastRead = [p \in Pumps |-> "none"]
    /\ on_message_received = 0
    /\ mutex = 0
    /\ dispatched = <<>>
    /\ setPc = "idle"
    /\ sets = 0
    /\ sendPc = [c \in Callers |-> "idle"]
    /\ data = [c \in Callers |-> <<>>]
    /\ header_written = [c \in Callers |-> 0]
    /\ body_written = [c \in Callers |-> 0]
    /\ lastWrite = [c \in Callers |-> "none"]
    /\ outbound = <<>>
    /\ sendLog = <<>>

Init == InitWith(FrameSeqs, Tails)

Running == proc = "running"

\* ----------------------------------------------------------------- the peer
\* The peer closes the connection; its FIN arrives behind the data it sent.
PeerClose ==
    /\ Running
    /\ ~peerClosed
    /\ peerClosed' = TRUE
    /\ UNCHANGED sendVars
    /\ UNCHANGED <<peerFrames, peerTail, inbound, proc, spawned, pc, buffer, read_bytes,
                   amount_to_read, readers, on_message_received, mutex, dispatched,
                   setPc, sets, ownerDropped, itersSinceDrop, lastRead>>

\* ------------------------------------------------------- TcpClient::receive
\* receive(): spawns a pump thread with a fresh reader state.  The argument
\* is the number of calls the caller makes at most.
Receive(maxCalls) ==
    /\ Running
    /\ ~ownerDropped
    /\ spawned < maxCalls
    /\ spawned' = spawned + 1
    /\ pc' = [pc EXCEPT ![spawned + 1] = "head"]
    /\ buffer' = [buffer EXCEPT ![spawned + 1] = Zeros(8)]
    /\ read_bytes' = [read_bytes EXCEPT ![spawned + 1] = 0]
    /\ amount_to_read' = [amount_to_read EXCEPT ![spawned + 1] = 0]
    /\ UNCHANGED sendVars
    /\ UNCHANGED <<peerFrames, peerTail, inbound, peerClosed, proc, readers,
                   on_message_received, mutex, dispatched, setPc, sets,
                   ownerDropped, itersSinceDrop, lastRead>>

\* The count of loop iterations begun since the owner dropped its TcpClient,
\* after one more; it stops counting above PollBound.
IterationsAfter ==
    IF ownerDropped /\ itersSinceDrop <= PollBound THEN itersSinceDrop + 1 ELSE itersSinceDrop

\* The header held by the first header_size bytes of a pump's buffer.
HeaderOf(p) == SubSeq(buffer[p], 1, header_size)

\* The allocator grants buffer.resize(header_size + amount_to_read, 0).
AllocOk(arr) == LeFits(arr) /\ header_size + from_le_bytes(arr) <= MemLimit

\* Top of the loop with read_bytes < 8: nothing to decode.
PumpHeadSkip(p) ==
    /\ Running
    /\ pc[p] = "head"
    /\ ~(read_bytes[p] >= 8)
    /\ pc' = [pc EXCEPT ![p] = "read"]
    /\ itersSinceDrop' = IterationsAfter
    /\ lastRead' = [lastRead EXCEPT ![p] = "none"]
    /\ UNCHANGED sendVars
    /\ UNCHANGED <<peerFrames, peerTail, inbound, peerClosed, proc, spawned, buffer,
                   read_bytes, amount_to_read, readers, on_message_received, mutex,
                   dispatched, setPc, sets, ownerDropped>>

\* Top of the loop with read_bytes >= 8: decode amount_to_read from the
\* header and size the buffer to header_size + amount_to_read.
PumpHeadDecode(p) ==
    /\ Running
    /\ pc[p] = "head"
    /\ read_bytes[p] >= 8
    /\ ~AddOverflows(HeaderOf(p))
    /\ ~CapacityOverflows(HeaderOf(p))
    /\ AllocOk(HeaderOf(p))
    /\ LET n == from_le_bytes(HeaderOf(p))
       IN  /\ amount_to_read' = [amount_to_read EXCEPT ![p] = n]
           /\ buffer' = [buffer EXCEPT ![p] =
                            IF Len(buffer[p]) # header_size + n
                            THEN Resize(buffer[p], header_size + n)
                            ELSE buffer[p]]
    /\ pc' = [pc EXCEPT ![p] = "read"]
    /\ itersSinceDrop' = IterationsAfter
    /\ lastRead' = [lastRead EXCEPT ![p] = "none"]
    /\ UNCHANGED sendVars
    /\ UNCHANGED <<peerFrames, peerTail, inbound, peerClosed, proc, spawned, read_bytes,
                   readers, on_message_received, mutex, dispatched, setPc, sets,
                   ownerDropped>>

\* The declared length makes header_size + amount_to_read overflow, or the
\* new capacity exceed isize::MAX: the pump thread panics.
PumpHeadPanic(p) ==
    /\ Running
    /\ pc[p] = "head"
    /\ read_bytes[p] >= 8
    /\ AddOverflows(HeaderOf(p)) \/ CapacityOverflows(HeaderOf(p))
    /\ pc' = [pc EXCEPT ![p] = "panicked"]
    /\ UNCHANGED sendVars
    /\ UNCHANGED <<peerFrames, peerTail, inbound, peerClosed, proc, spawned, buffer,
                   read_bytes, amount_to_read, readers, on_message_received, mutex,
                   dispatched, setPc, sets, ownerDropped, itersSinceDrop, lastRead>>

\* The allocator refuses the resize: the process aborts.
PumpHeadAllocFail(p) ==
    /\ Running
    /\ pc[p] = "head"
    /\ read_bytes[p] >= 8
    /\ ~AddOverflows(HeaderOf(p))
    /\ ~CapacityOverflows(HeaderOf(p))
    /\ ~AllocOk(HeaderOf(p))
    /\ proc' = "aborted"
    /\ UNCHANGED sendVars
    /\ UNCHANGED <<peerFrames, peerTail, inbound, peerClosed, spawned, pc, buffer,
                   read_bytes, amount_to_read, readers, on_message_received, mutex,
                   dispatched, setPc, sets, ownerDropped, itersSinceDrop, lastRead>>

\* The frame is complete after a read that brought read_bytes to rb.
FrameComplete(atr, rb) == atr > 0 /\ rb = header_size + atr

\* The buffer after a read stored the first size bytes of from at read_bytes.
Filled(buf, rb, from, size) ==
    [i \in 1..Len(buf) |-> IF rb < i /\ i <= rb + size THEN from[i - rb] ELSE buf[i]]

\* socket.read(&mut buffer[read_bytes..]) returns Ok(size), size > 0.
PumpReadData(p, size) ==
    /\ Running
    /\ pc[p] = "read"
    /\ size \in 1..Min(Len(buffer[p]) - read_bytes[p], Len(inbound))
    /\ buffer' = [buffer EXCEPT ![p] = Filled(buffer[p], read_bytes[p], inbound, size)]
    /\ inbound' = SliceFrom(inbound, size)
    /\ read_bytes' = [read_bytes EXCEPT ![p] = read_bytes[p] + size]
    /\ readers' = readers \cup {p}
    /\ pc' = [pc EXCEPT ![p] =
                 IF FrameComplete(amount_to_read[p], read_bytes[p] + size)
                 THEN "lock_msg" ELSE "head"]
    /\ lastRead' = [lastRead EXCEPT ![p] = "data"]
    /\ UNCHANGED sendVars
    /\ UNCHANGED <<peerFrames, peerTail, peerClosed, proc, spawned, amount_to_read,
                   on_message_received, mutex, dispatched, setPc, sets, ownerDropped,
                   itersSinceDrop>>

\* socket.read returns Ok(0): the peer has closed and all its bytes are read,
\* or the slice buffer[read_bytes..] is empty (and the socket readable).
ReadsZero(p) ==
    \/ inbound = <<>> /\ peerClosed
    \/ Len(buffer[p]) = read_bytes[p] /\ (inbound # <<>> \/ peerClosed)

PumpReadZero(p) ==
    /\ Running
    /\ pc[p] = "read"
    /\ ReadsZero(p)
    /\ readers' = readers \cup {p}
    /\ pc' = [pc EXCEPT ![p] = "lock_drop"]
    /\ lastRead' = [lastRead EXCEPT ![p] = "zero"]
    /\ UNCHANGED sendVars
    /\ UNCHANGED <<peerFrames, peerTail, inbound, peerClosed, proc, spawned, buffer,
                   read_bytes, amount_to_read, on_message_received, mutex, dispatched,
                   setPc, sets, ownerDropped, itersSinceDrop>>

PumpReadWouldBlock_Reset(p) ==
    /\ Running
    /\ pc[p] = "read"
    /\ ~peerClosed
    /\ readers' = readers \cup {p}
    /\ read_bytes' = [read_bytes EXCEPT ![p] = 0]
    /\ pc' = [pc EXCEPT ![p] = "head"]
    /\ lastRead' = [lastRead EXCEPT ![p] = "would_block"]
    /\ UNCHANGED sendVars
    /\ UNCHANGED <<peerFrames, peerTail, inbound, peerClosed, proc, spawned, buffer,
                   amount_to_read, on_message_received, mutex, dispatched, setPc, sets,
                   ownerDropped, itersSinceDrop>>

PumpReadWouldBlock_Truncate(p) ==
    /\ Running
    /\ pc[p] = "read"
    /\ ~peerClosed
    /\ readers' = readers \cup {p}
    /\ buffer' = [buffer EXCEPT ![p] = Resize(buffer[p], 8)]
    /\ pc' = [pc EXCEPT ![p] = "head"]
    /\ lastRead' = [lastRead EXCEPT ![p] = "would_block"]
    /\ UNCHANGED sendVars
    /\ UNCHANGED <<peerFrames, peerTail, inbound, peerClosed, proc, spawned, read_bytes,
                   amount_to_read, on_message_received, mutex, dispatched, setPc, sets,
                   ownerDropped, itersSinceDrop>>

\* socket.read returns Err(WouldBlock): sleep 100 ms, next iteration.
PumpReadWouldBlock(p) ==
    /\ Running
    /\ pc[p] = "read"
    /\ ~peerClosed
    /\ readers' = readers \cup {p}
    /\ pc' = [pc EXCEPT ![p] = "head"]
    /\ lastRead' = [lastRead EXCEPT ![p] = "would_block"]
    /\ UNCHANGED sendVars
    /\ UNCHANGED <<peerFrames, peerTail, inbound, peerClosed, proc, spawned, buffer,
                   read_bytes, amount_to_read, on_message_received, mutex, dispatched,
                   setPc, sets, ownerDropped, itersSinceDrop>>

PumpReadError_Drops(p) ==
    /\ Running
    /\ pc[p] = "read"
    /\ readers' = readers \cup {p}
    /\ pc' = [pc EXCEPT ![p] = "lock_drop"]
    /\ lastRead' = [lastRead EXCEPT ![p] = "error"]
    /\ UNCHANGED sendVars
    /\ UNCHANGED <<peerFrames, peerTail, inbound, peerClosed, proc, spawned, buffer,
                   read_bytes, amount_to_read, on_message_received, mutex, dispatched,
                   setPc, sets, ownerDropped, itersSinceDrop>>

\* socket.read returns another error: nothing is done, next iteration.
PumpReadError(p) ==
    /\ Running
    /\ pc[p] = "read"
    /\ readers' = readers \cup {p}
    /\ pc' = [pc EXCEPT ![p] = "head"]
    /\ lastRead' = [lastRead EXCEPT ![p] = "error"]
    /\ UNCHANGED sendVars
    /\ UNCHANGED <<peerFrames, peerTail, inbound, peerClosed, proc, spawned, buffer,
                   read_bytes, amount_to_read, on_message_received, mutex, dispatched,
                   setPc, sets, ownerDropped, itersSinceDrop>>

\* One handler invocation, as logged: the pump, the handler called, the
\* Message passed, and the call site ("closed" after Ok(0), "frame" after a
\* complete frame).
Invocation(p, msg, site) ==
    [pump |-> p, handler |-> on_message_received, message |-> msg, site |-> site]

Decoded_WholeBuffer(buf) ==
    LET r == Deserialize(buf)
    IN  IF r # <<>> THEN r[1] ELSE DeserializeErrorMessage

\* The Message handed to the handler for the complete frame in buf.
Decoded(buf) ==
    LET r == Deserialize(SliceFrom(buf, header_size))
    IN  IF r # <<>> THEN r[1] ELSE DeserializeErrorMessage

\* A thread may take the slot's lock.
LockFree == mutex = 0

\* After Ok(0): on_message_received.lock() succeeds and the handler is called
\* with ConnectionDropped.
PumpDropCall(p) ==
    /\ Running
    /\ pc[p] = "lock_drop"
    /\ LockFree
    /\ mutex' = p
    /\ dispatched' = Append(dispatched, Invocation(p, ConnectionDroppedMessage, "closed"))
    /\ pc' = [pc EXCEPT ![p] = "call_drop"]
    /\ UNCHANGED sendVars
    /\ UNCHANGED <<peerFrames, peerTail, inbound, peerClosed, proc, spawned, buffer,
                   read_bytes, amount_to_read, readers, on_message_received, setPc, sets,
                   ownerDropped, itersSinceDrop, lastRead>>

PumpDropExit_Continue(p) ==
    /\ Running
    /\ pc[p] = "call_drop"
    /\ mutex' = 0
    /\ pc' = [pc EXCEPT ![p] = "head"]
    /\ UNCHANGED sendVars
    /\ UNCHANGED <<peerFrames, peerTail, inbound, peerClosed, proc, spawned, buffer,
                   read_bytes, amount_to_read, readers, on_message_received, dispatched,
                   setPc, sets, ownerDropped, itersSinceDrop, lastRead>>

\* The handler returns; exit(0) ends the process.
PumpDropExit(p) ==
    /\ Running
    /\ pc[p] = "call_drop"
    /\ proc' = "exited"
    /\ UNCHANGED sendVars
    /\ UNCHANGED <<peerFrames, peerTail, inbound, peerClosed, spawned, pc, buffer,
                   read_bytes, amount_to_read, readers, on_message_received, mutex,
                   dispatched, setPc, sets, ownerDropped, itersSinceDrop, lastRead>>

\* A complete frame: on_message_received.lock() succeeds and the handler is
\* called with the deserialized Message, or with MessageDeserializeError.
PumpMsgCall(p) ==
    /\ Running
    /\ pc[p] = "lock_msg"
    /\ LockFree
    /\ mutex' = p
    /\ dispatched' = Append(dispatched, Invocation(p, Decoded(buffer[p]), "frame"))
    /\ pc' = [pc EXCEPT ![p] = "call_msg"]
    /\ UNCHANGED sendVars
    /\ UNCHANGED <<peerFrames, peerTail, inbound, peerClosed, proc, spawned, buffer,
                   read_bytes, amount_to_read, readers, on_message_received, setPc, sets,
                   ownerDropped, itersSinceDrop, lastRead>>

PumpMsgReturn_KeepsReadBytes(p) ==
    /\ Running
    /\ pc[p] = "call_msg"
    /\ buffer' = [buffer EXCEPT ![p] = Resize(buffer[p], 8)]
    /\ amount_to_read' = [amount_to_read EXCEPT ![p] = 0]
    /\ mutex' = 0
    /\ pc' = [pc EXCEPT ![p] = "head"]
    /\ UNCHANGED sendVars
    /\ UNCHANGED <<peerFrames, peerTail, inbound, peerClosed, proc, spawned, readers,
                   read_bytes, on_message_received, dispatched, setPc, sets,
                   ownerDropped, itersSinceDrop, lastRead>>

PumpMsgReturn_HoldsLock(p) ==
    /\ Running
    /\ pc[p] = "call_msg"
    /\ buffer' = [buffer EXCEPT ![p] = Resize(buffer[p], 8)]
    /\ read_bytes' = [read_bytes EXCEPT ![p] = 0]
    /\ amount_to_read' = [amount_to_read EXCEPT ![p] = 0]
    /\ pc' = [pc EXCEPT ![p] = "head"]
    /\ UNCHANGED sendVars
    /\ UNCHANGED <<peerFrames, peerTail, inbound, peerClosed, proc, spawned, readers,
                   mutex, on_message_received, dispatched, setPc, sets, ownerDropped,
                   itersSinceDrop, lastRead>>

PumpMsgReturn_KeepsBuffer(p) ==
    /\ Running
    /\ pc[p] = "call_msg"
    /\ read_bytes' = [read_bytes EXCEPT ![p] = 0]
    /\ amount_to_read' = [amount_to_read EXCEPT ![p] = 0]
    /\ mutex' = 0
    /\ pc' = [pc EXCEPT ![p] = "head"]
    /\ UNCHANGED sendVars
    /\ UNCHANGED <<peerFrames, peerTail, inbound, peerClosed, proc, spawned, readers,
                   buffer, on_message_received, dispatched, setPc, sets, ownerDropped,
                   itersSinceDrop, lastRead>>

\* The handler returns: the reader state is reset and the lock released.
PumpMsgReturn(p) ==
    /\ Running
    /\ pc[p] = "call_msg"
    /\ buffer' = [buffer EXCEPT ![p] = Resize(buffer[p], 8)]
    /\ read_bytes' = [read_bytes EXCEPT ![p] = 0]
    /\ amount_to_read' = [amount_to_read EXCEPT ![p] = 0]
    /\ mutex' = 0
    /\ pc' = [pc EXCEPT ![p] = "head"]
    /\ UNCHANGED sendVars
    /\ UNCHANGED <<peerFrames, peerTail, inbound, peerClosed, proc, spawned, readers,
                   on_message_received, dispatched, setPc, sets, ownerDropped,
                   itersSinceDrop, lastRead>>

\* ------------------------------------- TcpClient::set_on_message_received
\* The owner calls set_on_message_received(callback) and waits for the lock.
SetCall ==
    /\ Running
    /\ ~ownerDropped
    /\ setPc = "idle"
    /\ sets < MaxSets
    /\ sets' = sets + 1
    /\ setPc' = "locking"
    /\ UNCHANGED sendVars
    /\ UNCHANGED <<peerFrames, peerTail, inbound, peerClosed, proc, spawned, pc, buffer,
                   read_bytes, amount_to_read, readers, on_message_received, mutex,
                   dispatched, ownerDropped, itersSinceDrop, lastRead>>

SetStore_NoLock ==
    /\ Running
    /\ setPc = "locking"
    /\ on_message_received' = sets
    /\ setPc' = "idle"
    /\ UNCHANGED sendVars
    /\ UNCHANGED <<peerFrames, peerTail, inbound, peerClosed, proc, spawned, pc, buffer,
                   read_bytes, amount_to_read, readers, mutex, dispatched, sets,
                   ownerDropped, itersSinceDrop, lastRead>>

\* lock() succeeds: *cb = Box::new(callback); the guard is dropped and the
\* call returns.
SetStore ==
    /\ Running
    /\ setPc = "locking"
    /\ LockFree
    /\ on_message_received' = sets
    /\ setPc' = "idle"
    /\ UNCHANGED sendVars
    /\ UNCHANGED <<peerFrames, peerTail, inbound, peerClosed, proc, spawned, pc, buffer,
                   read_bytes, amount_to_read, readers, mutex, dispatched, sets,
                   ownerDropped, itersSinceDrop, lastRead>>

\* The owner drops its TcpClient.  The pump's clone of the Arc keeps the
\* socket and the slot alive; nothing in the pump reads the count.
OwnerDrop ==
    /\ Running
    /\ ~ownerDropped
    /\ setPc = "idle"
    /\ ownerDropped' = TRUE
    /\ UNCHANGED sendVars
    /\ UNCHANGED <<peerFrames, peerTail, inbound, peerClosed, proc, itersSinceDrop,
                   spawned, pc, buffer, read_bytes, amount_to_read, readers,
                   on_message_received, mutex, dispatched, setPc, sets, lastRead>>

\* ---------------------------------------------------------- TcpClient::send
\* The Messages the caller sends.
SendMessages == {KickedMessage, SentMessage}

\* let header = (data.len() as u64).to_le_bytes();
Header(c) == to_le_bytes(Len(data[c]), 8)

\* The entry of sendLog for the call a caller is in, or made last.
CurCall(c) ==
    CHOOSE i \in 1..Len(sendLog) :
        sendLog[i].caller = c /\ \A j \in (i + 1)..Len(sendLog) : sendLog[j].caller # c

SendCall_Locked(c, m) ==
    /\ Running
    /\ ~ownerDropped
    /\ \A d \in Callers : sendPc[d] = "idle"
    /\ Len(sendLog) < MaxSends
    /\ data' = [data EXCEPT ![c] = Serialize(m)]
    /\ header_written' = [header_written EXCEPT ![c] = 0]
    /\ body_written' = [body_written EXCEPT ![c] = 0]
    /\ lastWrite' = [lastWrite EXCEPT ![c] = "none"]
    /\ sendPc' = [sendPc EXCEPT ![c] = "header"]
    /\ sendLog' = Append(sendLog,
                         [caller |-> c, message |-> m, written |-> <<>>, result |-> "pending"])
    /\ UNCHANGED outbound
    /\ UNCHANGED recvVars

\* send(message) begins: the message is serialized, the counters are zero.
SendCall(c, m) ==
    /\ Running
    /\ ~ownerDropped
    /\ sendPc[c] = "idle"
    /\ Len(sendLog) < MaxSends
    /\ data' = [data EXCEPT ![c] = Serialize(m)]
    /\ header_written' = [header_written EXCEPT ![c] = 0]
    /\ body_written' = [body_written EXCEPT ![c] = 0]
    /\ lastWrite' = [lastWrite EXCEPT ![c] = "none"]
    /\ sendPc' = [sendPc EXCEPT ![c] = "header"]
    /\ sendLog' = Append(sendLog,
                         [caller |-> c, message |-> m, written |-> <<>>, result |-> "pending"])
    /\ UNCHANGED outbound
    /\ UNCHANGED recvVars

WriteSpan_FromStart(bytes, written, size) == SubSeq(bytes, 1, size)

\* The first size bytes of &bytes[written..]: what a write of size bytes takes.
WriteSpan(bytes, written, size) == SubSeq(bytes, written + 1, written + size)

\* The log after the caller's current call put bytes on the wire and, when
\* it returned, with its result.
Logged(c, bytes, result) ==
    [sendLog EXCEPT ![CurCall(c)].written = @ \o bytes, ![CurCall(c)].result = result]

\* socket.write(&header[header_written..]) returns Ok(size), size > 0.
SendHeaderWrite(c, size) ==
    /\ Running
    /\ sendPc[c] = "header"
    /\ size \in 1..(8 - header_written[c])
    /\ LET bytes == WriteSpan(Header(c), header_written[c], size)
           done  == ~(header_written[c] + size < 8) /\ ~(body_written[c] < Len(data[c]))
       IN  /\ outbound' = outbound \o bytes
           /\ sendLog' = Logged(c, bytes, IF done THEN "Ok" ELSE "pending")
           /\ sendPc' = [sendPc EXCEPT ![c] =
                             IF header_written[c] + size < 8 THEN "header"
                             ELSE IF body_written[c] < Len(data[c]) THEN "body"
                             ELSE "idle"]
    /\ header_written' = [header_written EXCEPT ![c] = header_written[c] + size]
    /\ lastWrite' = [lastWrite EXCEPT ![c] = "ok"]
    /\ UNCHANGED <<data, body_written>>
    /\ UNCHANGED recvVars

\* socket.write(&data[body_written..]) returns Ok(size), size > 0; send
\* returns Ok(()) when the body is written.
SendBodyWrite(c, size) ==
    /\ Running
    /\ sendPc[c] = "body"
    /\ size \in 1..(Len(data[c]) - body_written[c])
    /\ LET bytes == WriteSpan(data[c], body_written[c], size)
           done  == ~(body_written[c] + size < Len(data[c]))
       IN  /\ outbound' = outbound \o bytes
           /\ sendLog' = Logged(c, bytes, IF done THEN "Ok" ELSE "pending")
           /\ sendPc' = [sendPc EXCEPT ![c] = IF done THEN "idle" ELSE "body"]
    /\ body_written' = [body_written EXCEPT ![c] = body_written[c] + size]
    /\ lastWrite' = [lastWrite EXCEPT ![c] = "ok"]
    /\ UNCHANGED <<data, header_written>>
    /\ UNCHANGED recvVars

\* socket.write returns Ok(0): the counters stay, the loop goes on.
SendWriteZero(c) ==
    /\ Running
    /\ sendPc[c] \in {"header", "body"}
    /\ lastWrite' = [lastWrite EXCEPT ![c] = "ok"]
    /\ UNCHANGED <<sendPc, data, header_written, body_written, outbound, sendLog>>
    /\ UNCHANGED recvVars

SendWouldBlock_Reset(c) ==
    /\ Running
    /\ sendPc[c] \in {"header", "body"}
    /\ lastWrite' = [lastWrite EXCEPT ![c] = "would_block"]
    /\ header_written' = [header_written EXCEPT ![c] = 0]
    /\ body_written' = [body_written EXCEPT ![c] = 0]
    /\ sendPc' = [sendPc EXCEPT ![c] = "header"]
    /\ UNCHANGED <<data, outbound, sendLog>>
    /\ UNCHANGED recvVars

\* socket.write returns Err(WouldBlock): sleep 50 ms, the loop goes on.
SendWouldBlock(c) ==
    /\ Running
    /\ sendPc[c] \in {"header", "body"}
    /\ lastWrite' = [lastWrite EXCEPT ![c] = "would_block"]
    /\ UNCHANGED <<sendPc, data, header_written, body_written, outbound, sendLog>>
    /\ UNCHANGED recvVars

SendError_Retry(c) ==
    /\ Running
    /\ sendPc[c] \in {"header", "body"}
    /\ lastWrite' = [lastWrite EXCEPT ![c] = "error"]
    /\ UNCHANGED <<sendPc, data, header_written, body_written, outbound, sendLog>>
    /\ UNCHANGED recvVars

\* socket.write returns another error: send returns Err(kind).
SendError(c) ==
    /\ Running
    /\ sendPc[c] \in {"header", "body"}
    /\ lastWrite' = [lastWrite EXCEPT ![c] = "error"]
    /\ sendPc' = [sendPc EXCEPT ![c] = "idle"]
    /\ sendLog' = Logged(c, <<>>, "Err")
    /\ UNCHANGED <<data, header_written, body_written, outbound>>
    /\ UNCHANGED recvVars

SendStep(c) ==
    \/ \E m \in SendMessages : SendCall(c, m)
    \/ \E size \in 1..8 : SendHeaderWrite(c, size)
    \/ \E size \in 1..MemLimit : SendBodyWrite(c, size)
    \/ SendWriteZero(c)
    \/ SendWouldBlock(c)
    \/ SendError(c)

PumpStep(p) ==
    \/ PumpHeadSkip(p)
    \/ PumpHeadDecode(p)
    \/ PumpHeadPanic(p)
    \/ PumpHeadAllocFail(p)
    \/ \E size \in 1..MemLimit : PumpReadData(p, size)
    \/ PumpReadZero(p)
    \/ PumpReadWouldBlock(p)
    \/ PumpReadError(p)
    \/ PumpDropCall(p)
    \/ PumpDropExit(p)
    \/ PumpMsgCall(p)
    \/ PumpMsgReturn(p)

\* A client on which receive() is called once, and its peer.
Next ==
    \/ PeerClose
    \/ Receive(1)
    \/ \E p \in Pumps : PumpStep(p)

Spec == Init /\ [][Next]_vars

\* The same client, whose owner also replaces the handler.
NextSlot ==
    \/ PeerClose
    \/ Receive(1)
    \/ \E p \in Pumps : PumpStep(p)
    \/ SetCall
    \/ SetStore

SpecSlot == Init /\ [][NextSlot]_vars

\* A client with one caller of send and a silent peer.
NextSend == SendStep(1)

SpecSend == InitWith({<<>>}, {<<>>}) /\ [][NextSend]_vars

\* The same caller on a socket that does not stay unready for ever: a write
\* that the loop of send keeps attempting eventually takes some bytes.
SpecSendReady ==
    /\ SpecSend
    /\ WF_vars(\E size \in 1..8 : SendHeaderWrite(1, size))
    /\ WF_vars(\E size \in 1..MemLimit : SendBodyWrite(1, size))

\* Two threads that call send(KickedMessage) on the same client, whose
\* socket may be unready but does not fail, and a silent peer.
NextSendPair ==
    \E c \in Callers :
        \/ SendCall(c, KickedMessage)
        \/ \E size \in 1..8 : SendHeaderWrite(c, size)
        \/ \E size \in 1..MemLimit : SendBodyWrite(c, size)
        \/ SendWriteZero(c)
        \/ SendWouldBlock(c)

SpecSendPair == InitWith({<<>>}, {<<>>}) /\ [][NextSendPair]_vars

\* A peer that sends at most MaxFrames frames, each holding KickedMessage.
KickedSeqs == UNION {[1..n -> {Serialize(KickedMessage)}] : n \in 0..MaxFrames}

\* ... and then nothing, or the header of a frame of 2^63 bytes.
InitKicked == InitWith(KickedSeqs, {<<>>, <<0, 0, 0, 0, 0, 0, 0, 128>>})

\* A client on which receive() is called up to MaxPumps times.
NextPumps ==
    \/ PeerClose
    \/ Receive(MaxPumps)
    \/ \E p \in Pumps : PumpStep(p)

SpecPumps == InitKicked /\ [][NextPumps]_vars

\* A client whose owner may drop it while the pump runs.
NextShutdown ==
    \/ PeerClose
    \/ Receive(1)
    \/ \E p \in Pumps : PumpStep(p)
    \/ SetCall
    \/ SetStore
    \/ OwnerDrop

SpecShutdown == InitWith(KickedSeqs, Tails) /\ [][NextShutdown]_vars

\* A client whose owner replaces the handler, a peer that sends
\* KickedMessage frames, and threads that keep running: a handler that was
\* called returns, and a thread waiting in lock() gets the lock if it stays
\* free.
SpecSlotFair ==
    /\ InitWith(KickedSeqs, Tails)
    /\ [][NextSlot]_vars
    /\ WF_vars(SetStore)
    /\ \A p \in Pumps :
           /\ WF_vars(PumpDropCall(p))
           /\ WF_vars(PumpDropExit(p))
           /\ WF_vars(PumpMsgCall(p))
           /\ WF_vars(PumpMsgReturn(p))

\* ------------------------------------------------------- claims: the pump
IsPrefix(a, b) == Len(a) <= Len(b) /\ a = SubSeq(b, 1, Len(a))

Last(q) == q[Len(q)]

\* The Messages passed to the handler so far, in order.
AllMsgs == [i \in 1..Len(dispatched) |-> dispatched[i].message]

\* Those passed for complete frames.
FrameMsgs ==
    LET fr == SelectSeq(dispatched, LAMBDA d : d.site = "frame")
    IN  [i \in 1..Len(fr) |-> fr[i].message]

\* The number of ConnectionDropped signals after a read of zero bytes.
DropCount == Len(SelectSeq(dispatched, LAMBDA d : d.site = "closed"))

\* The Message the peer meant by a payload.
ExpectedMessage(payload) ==
    IF payload = Serialize(KickedMessage) THEN KickedMessage
    ELSE IF payload = Serialize(SentMessage) THEN SentMessage
    ELSE DeserializeErrorMessage

Expected == [i \in 1..Len(peerFrames) |-> ExpectedMessage(peerFrames[i])]

NonEmptyPayloads == \A i \in 1..Len(peerFrames) : peerFrames[i] # <<>>

\* No pump is between completing a frame and calling the handler for it.
NoDispatchPending == \A p \in Pumps : pc[p] # "lock_msg"

\* C1: for frames with non-empty payloads the handler is called once per
\* frame, in arrival order, with the Message of that frame's payload: the
\* Messages dispatched for frames are always a prefix of the Messages the
\* peer sent, and are all of them once every byte has been read.
C1_FramesDispatchedInOrder ==
    NonEmptyPayloads =>
        /\ IsPrefix(FrameMsgs, Expected)
        /\ (inbound = <<>> /\ NoDispatchPending /\ spawned > 0) => FrameMsgs = Expected

C1_Witness ==
    /\ Len(peerFrames) = 2
    /\ NonEmptyPayloads
    /\ peerFrames[1] = Serialize(SentMessage)
    /\ peerFrames[2] = Serialize(KickedMessage)
    /\ inbound = <<>>
    /\ FrameMsgs = <<SentMessage, KickedMessage>>

\* The number of leading frames of the peer whose bytes have all been read.
RECURSIVE FramesWithin(_, _)
FramesWithin(frames, n) ==
    IF frames = <<>> \/ Len(Frame(Head(frames))) > n THEN 0
    ELSE 1 + FramesWithin(Tail(frames), n - Len(Frame(Head(frames))))

FramesConsumed == FramesWithin(peerFrames, Len(Flatten(peerFrames) \o peerTail) - Len(inbound))

\* C2: frames of any payload length, zero included, are each dispatched once,
\* in order: the dispatched Messages are a prefix of those sent, and when the
\* pump has ended the process every frame it consumed has been dispatched.
C2_EveryFrameDispatched ==
    /\ IsPrefix(FrameMsgs, Expected)
    /\ proc = "exited" => Len(FrameMsgs) = FramesConsumed

\* The handler calls of a pump whose every read returns as many bytes as
\* requested, on the given stream, the peer closing after it.
RECURSIVE RefRun(_, _, _, _)
RefRun(buf, rb, atr, stream) ==
    LET hdr == SubSeq(buf, 1, header_size)
    IN  IF rb >= 8 /\ (AddOverflows(hdr) \/ CapacityOverflows(hdr) \/ ~AllocOk(hdr))
        THEN <<>>
        ELSE
        LET atr1 == IF rb >= 8 THEN from_le_bytes(hdr) ELSE atr
            buf1 == IF rb >= 8 THEN Resize(buf, header_size + atr1) ELSE buf
            n    == Min(Len(buf1) - rb, Len(stream))
            buf2 == [i \in 1..Len(buf1) |->
                        IF rb < i /\ i <= rb + n THEN stream[i - rb] ELSE buf1[i]]
        IN  IF n = 0 THEN <<ConnectionDroppedMessage>>
            ELSE IF atr1 > 0 /\ rb + n = header_size + atr1
            THEN <<Decoded(buf2)>> \o RefRun(Zeros(8), 0, 0, SliceFrom(stream, n))
            ELSE RefRun(buf2, rb + n, atr1, SliceFrom(stream, n))

RefDispatch == RefRun(Zeros(8), 0, 0, Flatten(peerFrames) \o peerTail)

\* C3: whatever the sizes of the reads and wherever would-block results fall,
\* the handler calls are those of a pump whose reads are never short: always
\* a prefix of them, all of them once the process has exited, and all but the
\* final ConnectionDropped once every byte has been read.
C3_ChunkingIndependent ==
    /\ IsPrefix(AllMsgs, RefDispatch)
    /\ proc = "exited" => AllMsgs = RefDispatch
    /\ (inbound = <<>> /\ NoDispatchPending /\ spawned > 0)
           => Len(AllMsgs) >= Len(RefDispatch) - 1

C3_Witness ==
    /\ Len(peerFrames) = 2
    /\ peerFrames[1] = Serialize(KickedMessage)
    /\ peerFrames[2] = Serialize(SentMessage)
    /\ proc = "exited"
    /\ AllMsgs = <<KickedMessage, SentMessage, ConnectionDroppedMessage>>

\* A pump has read zero bytes from a non-empty slice: the peer has closed.
SawPeerClose(p) == pc[p] \in {"lock_drop", "call_drop"} /\ Len(buffer[p]) > read_bytes[p]

C5_StateAfterClose ==
    \A p \in Pumps : SawPeerClose(p) =>
        /\ peerClosed /\ inbound = <<>>
        /\ DropCount = (IF pc[p] = "call_drop" THEN 1 ELSE 0)
        /\ pc[p] = "call_drop" =>
               /\ Last(dispatched).message = Message(<<"ConnectionDropped">>, None)
               /\ Last(dispatched).site = "closed"
        /\ IsPrefix(FrameMsgs, Expected)

C5_StepAfterClose ==
    /\ \A p \in Pumps : SawPeerClose(p) =>
           /\ pc'[p] \in {"lock_drop", "call_drop"}
           /\ readers' = readers /\ inbound' = inbound
           /\ buffer'[p] = buffer[p] /\ read_bytes'[p] = read_bytes[p]
           /\ \/ dispatched' = dispatched
              \/ pc[p] = "lock_drop" /\ pc'[p] = "call_drop" /\ Len(dispatched') = Len(dispatched) + 1
    /\ (\E p \in Pumps : pc[p] = "call_drop" /\ pc'[p] = "call_drop" /\ proc' # proc)
           => proc' = "exited"
    /\ proc = "exited" => UNCHANGED vars

\* C5: when a read returns zero bytes because the peer closed, the handler is
\* called exactly once, with ConnectionDropped and no body; no data of a
\* partly received frame is dispatched; the pump then neither reads nor calls
\* the handler again, and the process exits.
C5_CloseDispatchesDropOnce == []C5_StateAfterClose /\ [][C5_StepAfterClose]_vars

C5_Witness ==
    /\ SawPeerClose(1)
    /\ pc[1] = "call_drop"
    /\ read_bytes[1] > 8
    /\ Len(FrameMsgs) = 1

\* The pump has just been handed a complete frame that is no Message.
AtDeserializeError(p) ==
    /\ pc[p] = "call_msg"
    /\ Deserialize(SliceFrom(buffer[p], header_size)) = <<>>

C6_StateAtError ==
    \A p \in Pumps : AtDeserializeError(p) =>
        /\ Last(dispatched).message = Message(<<"MessageDeserializeError">>, None)
        /\ Last(dispatched).pump = p
        /\ IsPrefix(FrameMsgs, Expected)

C6_StepAfterError ==
    \A p \in Pumps : (AtDeserializeError(p) /\ pc'[p] # pc[p]) =>
        /\ pc'[p] = "head"
        /\ Len(buffer'[p]) = 8 /\ read_bytes'[p] = 0 /\ amount_to_read'[p] = 0
        /\ dispatched' = dispatched

C6_LaterFrames ==
    (NonEmptyPayloads /\ inbound = <<>> /\ NoDispatchPending /\ spawned > 0
        /\ \E i \in 1..Len(peerFrames) : peerFrames[i] = MalformedPayload)
      => FrameMsgs = Expected

\* C6: a complete frame whose payload is no Message gives one handler call
\* with MessageDeserializeError and no body, the reader state is reset
\* (buffer of 8 bytes, read_bytes 0, amount_to_read 0), and the frames after
\* it are dispatched correctly and in order.
C6_DeserializeErrorThenContinue ==
    /\ [](C6_StateAtError /\ C6_LaterFrames)
    /\ [][C6_StepAfterError]_vars

C6_Witness ==
    /\ Len(peerFrames) = 2
    /\ peerFrames[1] = MalformedPayload
    /\ peerFrames[2] = Serialize(SentMessage)
    /\ FrameMsgs = <<DeserializeErrorMessage, SentMessage>>

\* C7: however often receive() is called, at most one pump thread ever reads
\* from the connection's socket.
C7_AtMostOnePumpReads == Cardinality(readers) <= 1

\* C8: once the owner has given the connection up, the pump leaves its loop
\* within PollBound iterations.
C8_PumpStopsAfterShutdown == ownerDropped => itersSinceDrop <= PollBound

\* A handler invocation is in flight.
Invoking == \E p \in Pumps : pc[p] \in {"call_msg", "call_drop"}

C9_SlotState ==
    /\ on_message_received \in 0..MaxSets
    /\ on_message_received = (IF setPc = "idle" THEN sets ELSE sets - 1)
    /\ Invoking => mutex # 0 /\ pc[mutex] \in {"call_msg", "call_drop"}
    /\ Cardinality({p \in Pumps : pc[p] \in {"call_msg", "call_drop"}}) <= 1

C9_SlotStep ==
    /\ Invoking => on_message_received' = on_message_received
    /\ on_message_received' # on_message_received => mutex = 0 /\ mutex' = 0
    /\ dispatched' # dispatched =>
           /\ Len(dispatched') = Len(dispatched) + 1
           /\ SubSeq(dispatched', 1, Len(dispatched)) = dispatched
           /\ Last(dispatched').handler = on_message_received
           /\ setPc = "idle" => Last(dispatched').handler = sets

\* C9: the slot holds one handler at all times, the no-op until the first
\* replacement; no replacement happens while an invocation is in flight;
\* each dispatch calls the one handler that was in the slot when the pump
\* took the lock, and after set_on_message_received has returned that is the
\* new handler.
C9_SlotMutualExclusion == []C9_SlotState /\ [][C9_SlotStep]_vars

C9_Witness ==
    /\ Len(dispatched) = 2
    /\ dispatched[1].handler = 1
    /\ dispatched[2].handler = 1
    /\ pc[1] = "call_msg"
    /\ setPc = "locking"
    /\ sets = 2

\* ------------------------------------------------------- claims: the writer
\* The frames of the two Messages, byte by byte.
KickedFrame == <<5, 0, 0, 0, 0, 0, 0, 0,  0, 0, 0, 0,  0>>

SentFrame ==
    <<23, 0, 0, 0, 0, 0, 0, 0,  3, 0, 0, 0,  3, 0, 0, 0, 0, 0, 0, 0,  1,
      2, 0, 0, 0, 0, 0, 0, 0,  104, 105>>

ExpectedFrame(m) == IF m = KickedMessage THEN KickedFrame ELSE SentFrame

RECURSIVE WrittenUpTo(_)
WrittenUpTo(n) == IF n = 0 THEN <<>> ELSE WrittenUpTo(n - 1) \o sendLog[n].written

RECURSIVE FramesUpTo(_)
FramesUpTo(n) == IF n = 0 THEN <<>> ELSE FramesUpTo(n - 1) \o ExpectedFrame(sendLog[n].message)

\* C4: with one caller, a send that returns Ok has put on the wire exactly
\* the 8-byte little-endian length of the serialized message and then the
\* serialized message; while it runs it has put a prefix of that; and as
\* long as no send has failed the wire is the frames of the sends, in call
\* order.
C4_SendWritesOneFrame ==
    /\ \A i \in 1..Len(sendLog) :
           /\ sendLog[i].result = "Ok" => sendLog[i].written = ExpectedFrame(sendLog[i].message)
           /\ sendLog[i].result = "pending" =>
                  /\ IsPrefix(sendLog[i].written, ExpectedFrame(sendLog[i].message))
                  /\ Len(sendLog[i].written) = header_written[1] + body_written[1]
    /\ outbound = WrittenUpTo(Len(sendLog))
    /\ (\A i \in 1..Len(sendLog) : sendLog[i].result = "Ok")
           => outbound = FramesUpTo(Len(sendLog))

C4_Witness ==
    /\ Len(sendLog) = 2
    /\ sendLog[1].message = SentMessage /\ sendLog[1].result = "Ok"
    /\ sendLog[2].message = KickedMessage /\ sendLog[2].result = "Ok"
    /\ outbound = SentFrame \o KickedFrame

C10_StateAfterError ==
    \A c \in Callers : lastWrite[c] = "error" =>
        /\ sendPc[c] = "idle"
        /\ sendLog[CurCall(c)].result = "Err"
        /\ IsPrefix(sendLog[CurCall(c)].written, ExpectedFrame(sendLog[CurCall(c)].message))
        /\ Len(sendLog[CurCall(c)].written) < Len(ExpectedFrame(sendLog[CurCall(c)].message))

C10_StepAtError ==
    /\ \A c \in Callers : (lastWrite'[c] = "error" /\ sendPc[c] # "idle") =>
           /\ outbound' = outbound
           /\ sendPc'[c] = "idle"
           /\ sendLog'[CurCall(c)].result = "Err"
    /\ \A i \in 1..Len(sendLog) : sendLog[i].result = "Err" => sendLog'[i] = sendLog[i]

\* C10: when a write in send fails with an error other than would-block, in
\* the header or in the body, send returns Err at once and writes no more:
\* what that call put on the wire stays a proper prefix of its frame.
C10_SendErrorAborts == []C10_StateAfterError /\ [][C10_StepAtError]_vars

C10_Witness ==
    /\ Len(sendLog) = 2
    /\ sendLog[1].result = "Err" /\ Len(sendLog[1].written) = 3
    /\ sendLog[2].result = "Err" /\ Len(sendLog[2].written) = 12
    /\ lastWrite[1] = "error"

C11_Counters ==
    /\ header_written[1] \in 0..8
    /\ body_written[1] \in 0..Len(data[1])
    /\ body_written[1] > 0 => header_written[1] = 8
    /\ sendPc[1] = "header" => header_written[1] < 8
    /\ sendPc[1] = "body" => header_written[1] = 8 /\ body_written[1] < Len(data[1])
    /\ (Len(sendLog) > 0 /\ header_written[1] = 8 /\ body_written[1] = Len(data[1]))
           => sendPc[1] = "idle" /\ Last(sendLog).result = "Ok"
    /\ \A i \in 1..Len(sendLog) : sendLog[i].result = "Ok" =>
           i < Len(sendLog) \/ (header_written[1] = 8 /\ body_written[1] = Len(data[1]))

C11_CounterStep ==
    /\ sendLog' = sendLog =>
           /\ header_written'[1] >= header_written[1]
           /\ body_written'[1] >= body_written[1]
    /\ lastWrite'[1] = "would_block" =>
           /\ header_written'[1] = header_written[1]
           /\ body_written'[1] = body_written[1]
           /\ sendPc'[1] = sendPc[1]
           /\ outbound' = outbound

\* C11: within one call of send the counters header_written and
\* body_written only grow, never pass 8 and the length of the serialized
\* message, and a would-block write leaves them as they were; the call
\* returns Ok as soon as both spans are written; and on a socket that does
\* not stay unready for ever every call of send returns.
C11_SendReturns ==
    /\ []C11_Counters
    /\ [][C11_CounterStep]_vars
    /\ (sendPc[1] # "idle") ~> (sendPc[1] = "idle")

C11_Witness ==
    /\ Len(sendLog) = 2
    /\ sendLog[1].result = "Ok"
    /\ sendPc[1] = "body"
    /\ lastWrite[1] = "would_block"
    /\ header_written[1] = 8
    /\ body_written[1] = 3

\* The bytes are zero or more frames, each an 8-byte little-endian length
\* and then that many bytes, and nothing else.
RECURSIVE WellFramed(_)
WellFramed(bytes) ==
    IF bytes = <<>> THEN TRUE
    ELSE IF Len(bytes) < 8 THEN FALSE
    ELSE LET arr == SubSeq(bytes, 1, 8)
         IN  /\ LeFits(arr)
             /\ 8 + from_le_bytes(arr) <= Len(bytes)
             /\ WellFramed(SliceFrom(bytes, 8 + from_le_bytes(arr)))

\* C12: send takes no lock on the socket: a caller can begin a send while
\* another caller is in the middle of one, and each of them can write
\* whatever the other is doing; each call still writes its own frame in
\* order, so what reaches the wire is an interleaving of the calls' bytes,
\* which need not be a concatenation of frames.
C12_SendTakesNoLock ==
    /\ \A c \in Callers :
           /\ (Running /\ sendPc[c] = "idle" /\ Len(sendLog) < MaxSends)
                  => ENABLED SendCall(c, KickedMessage)
           /\ sendPc[c] = "header" => ENABLED (\E size \in 1..8 : SendHeaderWrite(c, size))
           /\ sendPc[c] = "body" => ENABLED (\E size \in 1..MemLimit : SendBodyWrite(c, size))
    /\ \A i \in 1..Len(sendLog) :
           /\ IsPrefix(sendLog[i].written, ExpectedFrame(sendLog[i].message))
           /\ sendLog[i].result = "Ok" => sendLog[i].written = ExpectedFrame(sendLog[i].message)
    /\ Len(outbound) = Len(WrittenUpTo(Len(sendLog)))
    /\ (~WellFramed(outbound) /\ \A i \in 1..Len(sendLog) : sendLog[i].result = "Ok")
           => \E i, j \in 1..Len(sendLog) : sendLog[i].caller # sendLog[j].caller

\* Both calls returned Ok and the wire is not a sequence of frames.
C12_Witness ==
    /\ Len(sendLog) = 2
    /\ sendLog[1].caller = 1 /\ sendLog[1].result = "Ok"
    /\ sendLog[2].caller = 2 /\ sendLog[2].result = "Ok"
    /\ ~WellFramed(outbound)

\* ----------------------------------------------- claims: the pump, again
\* C13: the pump never panics, whatever bytes the peer sends: for every
\* 8-byte header header_size + amount_to_read does not overflow and the
\* buffer can be sized and sliced.
C13_PumpNeverPanics == \A p \in Pumps : pc[p] # "panicked"

\* Everything the peer sends, and how much of it has been read.
Stream == Flatten(peerFrames) \o peerTail

Consumed == Len(Stream) - Len(inbound)

\* The offset in Stream at which the k-th complete frame ends.
FrameEnd(k) == Len(Flatten(SubSeq(peerFrames, 1, k)))

\* At a call of read the buffer is as long as the header while the header
\* is incomplete, and as long as the frame its header declares after that.
C14_AtRead ==
    \A p \in Pumps : pc[p] \in {"head", "read"} =>
        /\ read_bytes[p] <= Len(buffer[p])
        /\ read_bytes[p] < 8 => Len(buffer[p]) = 8 /\ amount_to_read[p] = 0
        /\ (pc[p] = "read" /\ read_bytes[p] >= 8) =>
               /\ LeFits(HeaderOf(p))
               /\ amount_to_read[p] = from_le_bytes(HeaderOf(p))
               /\ Len(buffer[p]) = 8 + amount_to_read[p]

\* The bytes the pump holds are the start of one frame of the stream, and
\* none of them is past the end of that frame.
C14_WithinFrame ==
    pc[1] # "unspawned" =>
        \E k \in 0..Len(peerFrames) :
            /\ Consumed - read_bytes[1] = FrameEnd(k)
            /\ k < Len(peerFrames) => Consumed <= FrameEnd(k + 1)

\* C14: at every call of read, read_bytes <= buffer.len(); buffer.len() is 8
\* while read_bytes < 8, also right after a dispatch; and buffer.len() is 8
\* plus the length in buffer[0..8] once read_bytes >= 8. So a read never
\* takes bytes of the next frame.
C14_ReaderInvariant == C14_AtRead /\ C14_WithinFrame

\* The pump has dispatched a 31-byte frame and is reading the 13-byte
\* frame after it.
C14_Witness ==
    /\ peerFrames = <<Serialize(SentMessage), Serialize(KickedMessage)>>
    /\ Len(dispatched) = 1
    /\ pc[1] = "read"
    /\ read_bytes[1] = 10
    /\ Len(buffer[1]) = 13

\* The reader state of a pump, the handler calls and the process are the
\* same before and after the step.
ReaderUntouched(p) ==
    /\ buffer'[p] = buffer[p]
    /\ read_bytes'[p] = read_bytes[p]
    /\ amount_to_read'[p] = amount_to_read[p]
    /\ inbound' = inbound
    /\ dispatched' = dispatched
    /\ mutex' = mutex
    /\ on_message_received' = on_message_received
    /\ proc' = proc

C15_StepAtError ==
    \A p \in Pumps :
        /\ (lastRead'[p] = "error" /\ lastRead[p] # "error") =>
               pc[p] = "read" /\ pc'[p] = "head" /\ ReaderUntouched(p)
        /\ (lastRead[p] = "error" /\ pc'[p] # pc[p]) =>
               pc'[p] = "read" /\ ReaderUntouched(p)

\* C15: a read error other than would-block is swallowed: no handler is
\* called, buffer, read_bytes and amount_to_read stay as they were, and the
\* loop goes on to the next read with that same state; the error never
\* ends the pump and never leads to ConnectionDropped.
C15_ReadErrorSwallowed ==
    /\ [](\A p \in Pumps : lastRead[p] = "error" => pc[p] = "head" /\ Running)
    /\ [][C15_StepAtError]_vars

\* A read fails in the middle of the second frame.
C15_Witness ==
    /\ lastRead[1] = "error"
    /\ Len(dispatched) = 1
    /\ read_bytes[1] = 10
    /\ amount_to_read[1] = 5
    /\ ~peerClosed

\* What the pump holds is what the peer sent from the start of the frame
\* being read; a frame handed to the handler is a whole frame of the peer.
C16_BytesKept ==
    pc[1] \in {"head", "read", "lock_msg", "call_msg"} =>
        /\ SubSeq(buffer[1], 1, read_bytes[1])
               = SubSeq(Stream, Consumed - read_bytes[1] + 1, Consumed)
        /\ pc[1] \in {"lock_msg", "call_msg"} =>
               \E k \in 1..Len(peerFrames) :
                   buffer[1] = Frame(peerFrames[k]) /\ Consumed = FrameEnd(k)

C16_StepAtWouldBlock ==
    \A p \in Pumps :
        (lastRead'[p] = "would_block" /\ lastRead[p] # "would_block") =>
            pc[p] = "read" /\ pc'[p] = "head" /\ ReaderUntouched(p)

\* C16: a would-block read changes nothing in the reader: buffer (contents
\* and length), read_bytes and amount_to_read are the same after it as
\* before, and no handler is called; the bytes of a partly received frame
\* are kept, and the frame that is completed later is the one the peer sent.
C16_WouldBlockKeepsState == []C16_BytesKept /\ [][C16_StepAtWouldBlock]_vars

\* A would-block in the middle of the payload of the second frame.
C16_Witness ==
    /\ lastRead[1] = "would_block"
    /\ Len(dispatched) = 1
    /\ read_bytes[1] = 20
    /\ amount_to_read[1] = 23
    /\ SubSeq(buffer[1], 1, 20) = SubSeq(SentFrame, 1, 20)

\* C17: the handler receives ConnectionDropped, and the process is ended,
\* only when the peer has closed the connection: nothing a peer that keeps
\* the connection open sends, no header in particular, has that effect.
C17_DropOnlyWhenClosed == (DropCount > 0 \/ proc = "exited") => peerClosed

\* ------------------------------------------- claims: the callback slot
\* C18 as stated: every call of set_on_message_received gets the slot and
\* returns.
C18_SetAlwaysReturns == (setPc = "locking") ~> (setPc = "idle")

\* C18, amended: while the process runs the owner and the pump never block
\* each other for good on the callback slot. A call of
\* set_on_message_received can take the slot whenever no handler call is
\* in progress, and it takes the slot and returns unless the process ends
\* first; a pump that has a complete frame takes the slot and calls the
\* handler unless the process ends first.
C18_NoSlotDeadlock ==
    /\ []((Running /\ setPc = "locking" /\ \A p \in Pumps : pc[p] \notin {"call_msg", "call_drop"})
             => ENABLED SetStore)
    /\ (setPc = "locking") ~> (setPc = "idle" \/ ~Running)
    /\ \A p \in Pumps : (pc[p] = "lock_msg") ~> (pc[p] = "call_msg" \/ ~Running)

\* The owner replaced the handler while the first frame was being handled,
\* and the pump is calling the new handler for the second frame.
C18_Witness ==
    /\ sets = 1
    /\ setPc = "idle"
    /\ Len(dispatched) = 2
    /\ dispatched[1].handler = 0
    /\ dispatched[2].handler = 1
    /\ pc[1] = "call_msg"
    /\ mutex = 1

====
